---- MODULE Spec2Model ----
(***************************************************************************)
(* Model of src/src/simple-dialog.tsx: SimpleDialog and its wrappers       *)
(* AlertDialog, ConfirmDialog and PromptDialog.                            *)
(*                                                                         *)
(* JavaScript values are written as the text of their literal:             *)
(* "undefined", "null", "true", "false", "''" (the empty string),          *)
(* "'Ada'" (a string), "450" (a number).  Object references are names      *)
(* ("m1", "event").  Objects are functions from property names to values;  *)
(* a property that is not set is not in the DOMAIN.                        *)
(***************************************************************************)
EXTENDS Integers, Sequences, FiniteSets, TLC

VARIABLES
    component,  \* the class that is mounted
    props,      \* this.props of the mounted component
    phase,      \* "constructed", "mounted" or "unmounted"
    messages,   \* SimpleDialog: this.state.messages
    _value,     \* PromptDialog: this._value
    view,       \* what the last render() returned
    calls,      \* the invocations of the caller's onClose so far, each its argument list
    last,       \* the last user event and what the handler it reached returned
    typed       \* the value carried by the most recent text-change event

vars == <<component, props, phase, messages, _value, view, calls, last, typed>>

----------------------------------------------------------------------------
(* Bounds *)

MaxButtons == 2
MaxMessages == 3
MaxCalls == 3

----------------------------------------------------------------------------
(* JavaScript values *)

Undefined == "undefined"
Null == "null"
EmptyString == "''"
Event == "event"

\* ToBoolean: the values that are falsy
Truthy(v) == v \notin {"undefined", "null", "false", "''", "0", "NaN"}

\* a || b
Or(a, b) == IF Truthy(a) THEN a ELSE b

EmptyObj == [k \in {} |-> Undefined]

\* o.k, undefined when the property is not set
Get(o, k) == IF k \in DOMAIN o THEN o[k] ELSE Undefined

\* { ...a, ...b }: own properties of b win, one level deep
Spread(a, b) ==
    [k \in (DOMAIN a) \cup (DOMAIN b) |-> IF k \in DOMAIN b THEN b[k] ELSE a[k]]

\* ...o.k inside an object literal: spreading undefined adds nothing
SpreadOf(o, k) == IF k \in DOMAIN o THEN o[k] ELSE EmptyObj

----------------------------------------------------------------------------
(* Functions the components pass around, and the values they are given *)

\* typeof h === "function"
Functions ==
    { "userFn", "props.onClose",
      "ConfirmDialog.onConfirm", "ConfirmDialog.onReject",
      "PromptDialog.onConfirm", "PromptDialog.onReject" }

IsFunction(h) == h \in Functions

\* an onClick that is set to something that is not a function
NotCallable == "notCallable"

\* the Message objects a caller's onClick may return: references, two of
\* them (m1, m2) with the same field values
MessageRefs == {"m1", "m2", "m3"}

MessageFields(m) ==
    IF m \in {"m1", "m2"} THEN [type |-> "MessageBarType.error", text |-> "'Required'"]
    ELSE IF m = "m3" THEN [type |-> "MessageBarType.info", text |-> "'Saved'"]
    ELSE [type |-> Undefined, text |-> Undefined]

----------------------------------------------------------------------------
(* SimpleDialog.render *)

Primary == "SimpleDialogButtonType.Primary"
Default == "SimpleDialogButtonType.Default"

NoButton(b) ==
    [element |-> Undefined, text |-> Undefined, href |-> Undefined,
     onClick |-> FALSE, b |-> b]

\* ButtonElement with the test b.onClick alone: a link button is dropped
ButtonElement_OnClickOnly(b) ==
    IF Truthy(b.onClick)
    THEN [element |-> IF b.type = Primary THEN "PrimaryButton" ELSE "DefaultButton",
          text |-> b.text, href |-> b.href, onClick |-> TRUE, b |-> b]
    ELSE NoButton(b)

\* the body of buttons.map: the element made for descriptor b, or undefined
ButtonElement(b) ==
    IF Truthy(b.onClick) \/ Truthy(b.href)
    THEN LET buttonProps == [text |-> b.text, href |-> b.href,
                             onClick |-> Truthy(b.onClick), b |-> b]
         IN  CASE b.type = Primary -> [element |-> "PrimaryButton"] @@ buttonProps
               [] b.type = Default -> [element |-> "DefaultButton"] @@ buttonProps
               [] OTHER -> NoButton(b)
    ELSE NoButton(b)

\* the dialogContentProps attribute of the Dialog
ContentConfig(p) ==
    Spread(Spread([type |-> "DialogType.normal", showCloseButton |-> "false"],
                  SpreadOf(p, "dialogContentProps")),
           [title |-> Or(Get(p, "title"), EmptyString)])

\* the modalProps attribute of the Dialog
ModalConfig(p) ==
    Spread([isBlocking |-> "true",
            styles |-> [main |-> [minWidth |-> "450", maxWidth |-> "450"]]],
           SpreadOf(p, "modalProps"))

\* the props of the Dialog element
DialogConfig(p) ==
    Spread(SpreadOf(p, "dialogProps"),
           [hidden |-> "false",
            dialogContentProps |-> ContentConfig(p),
            modalProps |-> ModalConfig(p)])

\* the MessageBar made for each entry of this.state.messages
MessageBars(msgs) ==
    [i \in DOMAIN msgs |->
        [m |-> msgs[i], messageBarType |-> MessageFields(msgs[i]).type,
         text |-> MessageFields(msgs[i]).text]]

\* SimpleDialog.render with this.props = p and this.state.messages = msgs
SimpleDialogRender(p, msgs) ==
    [dialog |-> DialogConfig(p),
     message |-> Get(p, "message"),
     bars |-> MessageBars(msgs),
     buttons |-> [i \in DOMAIN p.buttons |-> ButtonElement(p.buttons[i])]]

\* the buttons that reach the screen: map's undefined entries render nothing
Rendered(v) == SelectSeq(v.buttons, LAMBDA e : e.element # Undefined)

----------------------------------------------------------------------------
(* The wrappers: each render() returns a SimpleDialog element; these are   *)
(* the props of that element                                               *)

AlertDialogRender(p) ==
    [title |-> Get(p, "title"),
     message |-> Get(p, "message"),
     buttons |-> << [text |-> Or(Get(p, "buttonText"), "'Okay'"),
                     type |-> Primary,
                     onClick |-> Get(p, "onClose"),
                     href |-> Undefined] >>]

\* ConfirmDialogRender with the two handlers exchanged when the caller
\* gives a reject label
ConfirmDialogRender_LabelDecides(p) ==
    LET swap == Truthy(Get(p, "rejectButtonText"))
    IN  [title |-> Get(p, "title"),
         message |-> Get(p, "message"),
         buttons |-> << [text |-> Or(Get(p, "rejectButtonText"), "'No'"),
                         type |-> Default,
                         onClick |-> IF swap THEN "ConfirmDialog.onConfirm"
                                     ELSE "ConfirmDialog.onReject",
                         href |-> Undefined],
                        [text |-> Or(Get(p, "confirmButtonText"), "'Yes'"),
                         type |-> Primary,
                         onClick |-> IF swap THEN "ConfirmDialog.onReject"
                                     ELSE "ConfirmDialog.onConfirm",
                         href |-> Undefined] >>]

ConfirmDialogRender(p) ==
    [title |-> Get(p, "title"),
     message |-> Get(p, "message"),
     buttons |-> << [text |-> Or(Get(p, "rejectButtonText"), "'No'"),
                     type |-> Default,
                     onClick |-> "ConfirmDialog.onReject",
                     href |-> Undefined],
                    [text |-> Or(Get(p, "confirmButtonText"), "'Yes'"),
                     type |-> Primary,
                     onClick |-> "ConfirmDialog.onConfirm",
                     href |-> Undefined] >>]

\* PromptDialog.renderMessage: the message and the text field, inside a Label
\* when messageAsLabel is set and the text field has no label of its own
RenderMessage(p) ==
    [wrapper |-> IF Truthy(Get(p, "messageAsLabel"))
                    /\ ~Truthy(Get(SpreadOf(p, "textFieldProps"), "label"))
                 THEN "Label" ELSE "Fragment",
     message |-> Get(p, "message"),
     textField |-> Spread(SpreadOf(p, "textFieldProps"),
                          [onChange |-> "PromptDialog.onValueChanged"])]

PromptDialogRender(p) ==
    [title |-> Get(p, "title"),
     message |-> RenderMessage(p),
     buttons |-> << [text |-> Or(Get(p, "rejectButtonText"), "'No'"),
                     type |-> Default,
                     onClick |-> "PromptDialog.onReject",
                     href |-> Undefined],
                    [text |-> Or(Get(p, "confirmButtonText"), "'Yes'"),
                     type |-> Primary,
                     onClick |-> "PromptDialog.onConfirm",
                     href |-> Undefined] >>]

\* the props of the SimpleDialog that component c with props p puts on screen
SimpleDialogProps(c, p) ==
    CASE c = "SimpleDialog" -> p
      [] c = "AlertDialog" -> AlertDialogRender(p)
      [] c = "ConfirmDialog" -> ConfirmDialogRender(p)
      [] c = "PromptDialog" -> PromptDialogRender(p)

Render(c, p, msgs) == SimpleDialogRender(SimpleDialogProps(c, p), msgs)

----------------------------------------------------------------------------
(* Event handlers *)

\* what the caller's functions may return
UserFnReturns == {Undefined, "false", EmptyString} \cup MessageRefs
OnCloseReturns == {Undefined, "m1"}

\* the values function h may return when it is called
HandlerReturns(h) ==
    CASE h = "userFn" -> UserFnReturns
      [] h = "props.onClose" -> OnCloseReturns
      [] OTHER -> {Undefined}

\* OnCloseCalls with a PromptDialog.onConfirm that closes only when there is
\* a value
OnCloseCalls_SkipsEmpty(h, event, val) ==
    CASE h = "props.onClose" -> << <<event>> >>
      [] h = "ConfirmDialog.onConfirm" -> << <<"true">> >>
      [] h = "ConfirmDialog.onReject" -> << <<"false">> >>
      [] h = "PromptDialog.onConfirm" -> IF Truthy(val) THEN << <<val>> >> ELSE << >>
      [] h = "PromptDialog.onReject" -> << <<Null>> >>
      [] OTHER -> << >>

\* the calls of this.props.onClose that function h makes, each its argument
\* list, when h is called with argument event and this._value = val
OnCloseCalls(h, event, val) ==
    CASE h = "props.onClose" -> << <<event>> >>
      [] h = "ConfirmDialog.onConfirm" -> << <<"true">> >>
      [] h = "ConfirmDialog.onReject" -> << <<"false">> >>
      [] h = "PromptDialog.onConfirm" -> << <<val>> >>
      [] h = "PromptDialog.onReject" -> << <<Null>> >>
      [] OTHER -> << >>

\* _onButtonClicked with a list that takes each message once
_onButtonClicked_Dedup(msgs, button, ret) ==
    LET buttonResult == IF IsFunction(button.onClick) THEN ret ELSE "false"
    IN  IF Truthy(buttonResult) /\ \A i \in DOMAIN msgs : msgs[i] # buttonResult
        THEN Append(msgs, buttonResult) ELSE msgs

\* SimpleDialog._onButtonClicked: the new this.state.messages, where ret is
\* what button.onClick returns if it is called
_onButtonClicked(msgs, button, ret) ==
    LET buttonResult == IF IsFunction(button.onClick) THEN ret ELSE "false"
    IN  IF Truthy(buttonResult) THEN Append(msgs, buttonResult) ELSE msgs

\* SimpleDialog._onMessageDismissed: the new this.state.messages
_onMessageDismissed(msgs, message) ==
    SelectSeq(msgs, LAMBDA m : m # message)

\* onValueChanged as this._value = newValue || ''
onValueChanged_OrEmpty(newValue) == Or(newValue, EmptyString)

\* PromptDialog.onValueChanged: the new this._value
onValueChanged(newValue) == newValue

----------------------------------------------------------------------------
(* Inputs *)

Components == {"SimpleDialog", "AlertDialog", "ConfirmDialog", "PromptDialog"}

\* property k left out, or set to one of vals
Opt(k, vals) == {EmptyObj} \cup { [x \in {k} |-> v] : v \in vals }

\* the sequences over S of length at most n
SeqsUpTo(S, n) == UNION { [1..k -> S] : k \in 0..n }

Descriptors(onClicks, hrefs, types) ==
    { [type |-> t, text |-> "'Go'", onClick |-> o, href |-> h] :
        t \in types, o \in onClicks, h \in hrefs }

Titles == Opt("title", {"'Hi!'", EmptyString})

DialogOverrides ==
    Opt("dialogProps", { [hidden |-> "true"], [className |-> "'wide'"] })

ContentOverrides ==
    Opt("dialogContentProps",
        { [type |-> "DialogType.largeHeader"], [showCloseButton |-> "true"],
          [subText |-> "'sub'"], [title |-> "'Other'"] })

ModalOverrides ==
    Opt("modalProps",
        { [isBlocking |-> "false"], [className |-> "'wide'"],
          [styles |-> [main |-> [minWidth |-> "600"]]],
          [styles |-> [root |-> [opacity |-> "1"]]] })

\* title, dialogProps, dialogContentProps and modalProps of IBaseDialogProps
BaseOverrides ==
    { t @@ d @@ c @@ m :
        t \in Titles, d \in DialogOverrides, c \in ContentOverrides, m \in ModalOverrides }

Labels(k) == Opt(k, {"'Sure'", EmptyString})

WrapperProps(c) ==
    CASE c = "AlertDialog" ->
            { [message |-> "'msg'", onClose |-> "props.onClose"] @@ t :
                t \in Labels("buttonText") }
      [] c = "ConfirmDialog" ->
            { [message |-> "'msg'", onClose |-> "props.onClose"] @@ y @@ n :
                y \in Labels("confirmButtonText"), n \in Labels("rejectButtonText") }
      [] c = "PromptDialog" ->
            { [message |-> "'msg'", onClose |-> "props.onClose"] @@ y @@ n @@ l @@ f :
                y \in Labels("confirmButtonText"), n \in Labels("rejectButtonText"),
                l \in Opt("messageAsLabel", {"true"}),
                f \in Opt("textFieldProps", { [label |-> "'Name'"] }) }

\* the props the event handlers are exercised with
BehaviourProps(c) ==
    IF c = "SimpleDialog"
    THEN { [message |-> "'msg'", buttons |-> bs] :
             bs \in SeqsUpTo(Descriptors({Undefined, "userFn", NotCallable},
                                         {Undefined}, {Primary})
                               \cup Descriptors({Undefined}, {"'url'"}, {Default}),
                             MaxButtons) }
    ELSE { p \in WrapperProps(c) :
             "messageAsLabel" \notin DOMAIN p /\ "textFieldProps" \notin DOMAIN p }

\* the props render() is exercised with
RenderProps(c) ==
    IF c = "SimpleDialog"
    THEN { [message |-> "'msg'", buttons |-> bs] :
             bs \in SeqsUpTo(Descriptors({Undefined, "userFn", NotCallable},
                                         {Undefined, EmptyString, "'url'"},
                                         {Primary, Default}),
                             MaxButtons) }
         \cup
         { [message |-> "'msg'",
            buttons |-> << [type |-> Primary, text |-> "'Go'",
                            onClick |-> "userFn", href |-> Undefined] >>] @@ o :
             o \in BaseOverrides }
    ELSE { p @@ o : p \in WrapperProps(c), o \in BaseOverrides }

TextValues == {Undefined, EmptyString, "'Ada'", "'Bob'"}

----------------------------------------------------------------------------
(* State machine *)

NotRendered == [dialog |-> EmptyObj, message |-> Undefined, bars |-> <<>>, buttons |-> <<>>]

NoEvent == [op |-> "none", index |-> 0, target |-> Undefined,
            invoked |-> FALSE, returned |-> Undefined]

NoChange == "no change"

\* the state after the constructor: SimpleDialog's messages: [] and
\* PromptDialog's _value = ''
Constructed ==
    /\ phase = "constructed"
    /\ messages = <<>>
    /\ _value = EmptyString
    /\ view = NotRendered
    /\ calls = <<>>
    /\ last = NoEvent
    /\ typed = NoChange

Init ==
    /\ component \in Components
    /\ props \in BehaviourProps(component)
    /\ Constructed

InitRender ==
    /\ component \in Components
    /\ props \in RenderProps(component)
    /\ Constructed

\* the first render()
Mount ==
    /\ phase = "constructed"
    /\ phase' = "mounted"
    /\ view' = Render(component, props, messages)
    /\ UNCHANGED <<component, props, messages, _value, calls, last, typed>>

\* A click on the i-th button: the onClick that render() attached runs
\* _onButtonClicked(b, event).  ret is what b.onClick returns; unmount is
\* whether the caller's onClose takes the dialog off the screen.
Click(i, ret, unmount) ==
    /\ phase = "mounted"
    /\ i \in DOMAIN view.buttons
    /\ view.buttons[i].element # Undefined
    /\ view.buttons[i].onClick
    /\ LET b == view.buttons[i].b
           invoked == IsFunction(b.onClick)
           made == IF invoked THEN OnCloseCalls(b.onClick, Event, _value) ELSE << >>
       IN  /\ ret \in (IF invoked THEN HandlerReturns(b.onClick) ELSE {Undefined})
           /\ unmount => made # << >>
           /\ calls' = calls \o made
           /\ Len(calls') <= MaxCalls
           /\ messages' = _onButtonClicked(messages, b, ret)
           /\ Len(messages') <= MaxMessages
           /\ last' = [op |-> "click", index |-> i, target |-> b.onClick,
                       invoked |-> invoked, returned |-> ret]
           /\ phase' = IF unmount THEN "unmounted" ELSE "mounted"
           /\ view' = IF unmount THEN NotRendered
                      ELSE Render(component, props, messages')
    /\ UNCHANGED <<component, props, _value, typed>>

\* The dismiss control of the j-th MessageBar: _onMessageDismissed(m)
Dismiss(j) ==
    /\ phase = "mounted"
    /\ j \in DOMAIN view.bars
    /\ LET m == view.bars[j].m
       IN  /\ messages' = _onMessageDismissed(messages, m)
           /\ last' = [op |-> "dismiss", index |-> j, target |-> m,
                       invoked |-> TRUE, returned |-> Undefined]
    /\ view' = Render(component, props, messages')
    /\ UNCHANGED <<component, props, phase, _value, calls, typed>>

\* A change of PromptDialog's text field: onValueChanged(_, newValue)
Change(newValue) ==
    /\ phase = "mounted"
    /\ component = "PromptDialog"
    /\ _value' = onValueChanged(newValue)
    /\ typed' = newValue
    /\ last' = [op |-> "change", index |-> 0, target |-> newValue,
                invoked |-> TRUE, returned |-> Undefined]
    /\ UNCHANGED <<component, props, phase, messages, view, calls>>

Next ==
    \/ Mount
    \/ \E i \in 1..MaxButtons, ret \in UserFnReturns \cup OnCloseReturns,
          unmount \in BOOLEAN : Click(i, ret, unmount)
    \/ \E j \in 1..MaxMessages : Dismiss(j)
    \/ \E v \in TextValues : Change(v)

Spec == Init /\ [][Next]_vars

NextRender == Mount

SpecRender == InitRender /\ [][NextRender]_vars

----------------------------------------------------------------------------
(* Properties *)

\* the step just taken was a click (Mount leaves last at NoEvent, Dismiss
\* and Change set last' to their own event)
ClickStep == last'.op = "click"

\* the descriptor of the button the last click was on
ClickedButton == SimpleDialogProps(component, props).buttons[last.index]

\* the argument list of the most recent call of the caller's onClose
LastCall == calls[Len(calls)]

\* C1: in PromptDialog, after any text changes, a click on the reject button
\* calls onClose with the single argument undefined.
C1_RejectPassesUndefined ==
    (component = "PromptDialog" /\ last.op = "click" /\ ClickedButton.type = Default)
        => (calls # << >> /\ LastCall = <<Undefined>>)

\* C2: in AlertDialog, a click on the button calls onClose with no arguments.
C2_AlertCloseWithoutArguments ==
    (component = "AlertDialog" /\ last.op = "click")
        => (calls # << >> /\ LastCall = << >>)

\* C3: in ConfirmDialog, whatever the two label props are, each click on the
\* confirm button (the Primary one) makes exactly one call onClose(true) and
\* each click on the reject button (the Default one) exactly one call
\* onClose(false).
C3_ConfirmResult ==
    [][(component = "ConfirmDialog" /\ ClickStep) =>
         calls' = Append(calls, << IF ClickedButton'.type = Primary
                                   THEN "true" ELSE "false" >>)]_vars

C3_Witness ==
    /\ component = "ConfirmDialog"
    /\ "confirmButtonText" \in DOMAIN props
    /\ "rejectButtonText" \notin DOMAIN props
    /\ calls = << <<"true">>, <<"false">>, <<"true">> >>

\* C4: in PromptDialog, a click on the confirm button calls onClose with the
\* value of the most recent text-change event, and with '' when there has been
\* none; nothing earlier has any influence.
C4_ConfirmLastWriteWins ==
    [][(component = "PromptDialog" /\ ClickStep /\ ClickedButton'.type = Primary) =>
         calls' = Append(calls, << IF typed = NoChange THEN EmptyString ELSE typed >>)]_vars

C4_Witness ==
    /\ component = "PromptDialog"
    /\ last.op = "click"
    /\ ClickedButton.type = Primary
    /\ typed = "'Bob'"
    /\ calls = << <<EmptyString>>, <<"'Ada'">>, <<"'Bob'">> >>

\* C5: a click whose onClick is a function that returns a truthy value appends
\* that value once, at the end of the message list; a click whose onClick is
\* not a function or returns a falsy value leaves the list as it is.
C5_AppendOnTruthy ==
    [][ClickStep =>
         messages' = IF last'.invoked /\ Truthy(last'.returned)
                     THEN Append(messages, last'.returned)
                     ELSE messages]_vars

C5_Witness ==
    /\ component = "SimpleDialog"
    /\ last.op = "click"
    /\ last.returned = "m1"
    /\ messages = <<"m2", "m1", "m1">>

\* the sequence s without its j-th element
RemoveAt(s, j) == [i \in 1..(Len(s) - 1) |-> IF i < j THEN s[i] ELSE s[i + 1]]

\* C6: dismissing the j-th displayed message removes that one entry and
\* leaves every other entry, in order.
C6_DismissRemovesOne ==
    [][last'.op = "dismiss" => messages' = RemoveAt(messages, last'.index)]_vars

\* the descriptors of the buttons on screen, in screen order
ShownDescriptors == [i \in DOMAIN Rendered(view) |-> Rendered(view)[i].b]

\* C7: SimpleDialog shows exactly the descriptors that have an onClick or an
\* href, in the caller's order.
C7_ShownIffOnClickOrHref ==
    (component = "SimpleDialog" /\ phase = "mounted") =>
        ShownDescriptors =
            SelectSeq(props.buttons,
                      LAMBDA b : b.onClick # Undefined \/ b.href # Undefined)

\* C7 (amended): SimpleDialog shows exactly the descriptors that have an
\* onClick or a non-empty href, in the caller's order; a Primary descriptor
\* is shown as a PrimaryButton and a Default one as a DefaultButton, and the
\* kind decides nothing else.
C7_ShownIffOnClickOrNonEmptyHref ==
    (component = "SimpleDialog" /\ phase = "mounted") =>
        /\ ShownDescriptors =
              SelectSeq(props.buttons,
                        LAMBDA b : b.onClick # Undefined
                                   \/ b.href \notin {Undefined, EmptyString})
        /\ \A i \in DOMAIN Rendered(view) :
              Rendered(view)[i].element =
                  IF Rendered(view)[i].b.type = Primary
                  THEN "PrimaryButton" ELSE "DefaultButton"

C7_Witness ==
    /\ component = "SimpleDialog"
    /\ phase = "mounted"
    /\ Len(props.buttons) = 2
    /\ props.buttons[1].onClick = Undefined
    /\ props.buttons[1].href = Undefined
    /\ props.buttons[2].onClick = Undefined
    /\ props.buttons[2].href = "'url'"
    /\ props.buttons[2].type = Default
    /\ Len(Rendered(view)) = 1

\* C8: within one mount of ConfirmDialog or PromptDialog, onClose is called
\* at most once, however many clicks there are.
C8_CloseOncePerMount ==
    component \in {"ConfirmDialog", "PromptDialog"} => Len(calls) <= 1

\* C8 (amended): in ConfirmDialog and PromptDialog every click on the confirm
\* or the reject button calls onClose exactly once, also when onClose has been
\* called before in the same mount, and no other event calls it.
C8_CloseOncePerClick ==
    [][(component \in {"ConfirmDialog", "PromptDialog"}) =>
         IF ClickStep THEN Len(calls') = Len(calls) + 1 ELSE calls' = calls]_vars

C8_Witness ==
    /\ component = "PromptDialog"
    /\ phase = "mounted"
    /\ last.op = "click"
    /\ calls = << <<Null>>, <<"'Ada'">> >>

\* C9: the dialogProps, dialogContentProps and modalProps given to a wrapper
\* reach the Dialog as they would if they were given to SimpleDialog.
C9_WrapperOverridesReachDialog ==
    (component # "SimpleDialog" /\ phase = "mounted") =>
        view.dialog = DialogConfig(props)

\* the styles.main object of a modalProps object
MainStyles(modal) ==
    IF "styles" \in DOMAIN modal /\ "main" \in DOMAIN modal.styles
    THEN modal.styles.main ELSE EmptyObj

\* C10: every default of SimpleDialog (hidden false, type normal,
\* showCloseButton false, isBlocking true, minWidth 450, maxWidth 450) is in
\* the Dialog's props unless the caller's override sets that same field.
C10_DefaultsSurviveOtherOverrides ==
    (component = "SimpleDialog" /\ phase = "mounted") =>
        LET content == SpreadOf(props, "dialogContentProps")
            modal == SpreadOf(props, "modalProps")
            shown == view.dialog
        IN  /\ shown.hidden = "false"
            /\ "type" \in DOMAIN content
                  \/ Get(shown.dialogContentProps, "type") = "DialogType.normal"
            /\ "showCloseButton" \in DOMAIN content
                  \/ Get(shown.dialogContentProps, "showCloseButton") = "false"
            /\ "isBlocking" \in DOMAIN modal
                  \/ Get(shown.modalProps, "isBlocking") = "true"
            /\ "minWidth" \in DOMAIN MainStyles(modal)
                  \/ Get(MainStyles(shown.modalProps), "minWidth") = "450"
            /\ "maxWidth" \in DOMAIN MainStyles(modal)
                  \/ Get(MainStyles(shown.modalProps), "maxWidth") = "450"

\* C11: in AlertDialog, ConfirmDialog and PromptDialog the message list of
\* the SimpleDialog inside stays empty, whatever the user clicks or types and
\* whatever the caller's onClose returns.
C11_WrappersKeepMessagesEmpty ==
    component # "SimpleDialog" => messages = << >>

====
